---- MODULE Spec2Model ----
(***************************************************************************)
(* The MoSDeF tutorial workflows as state machines.                        *)
(*                                                                         *)
(* Three notebooks are modelled, each executed top to bottom ("Run All"):  *)
(*   propane : src/trappe_ua_propane/trappe-propane.ipynb                  *)
(*   charmm  : src/charmm-gui-gmx/charmm-gui-gmx.ipynb                     *)
(*   hoomd   : src/unnamed/part_001 (united-atom HOOMD/freud notebook)     *)
(* A Python exception raised by a cell stops the execution of the          *)
(* remaining cells.  A shell command (Popen(..., shell=True) or !cmd)      *)
(* never raises on a nonzero exit status.                                  *)
(*                                                                         *)
(* Lengths are integers in units of 0.01 nm.                               *)
(***************************************************************************)
EXTENDS Integers, Sequences, FiniteSets, TLC

VARIABLES
    wf,          \* the notebook being run
    pc,          \* index of the next step of Cells(wf)
    halted,      \* TRUE once a cell has raised: no further cell executes
    error,       \* the exception reported to the user, or NoError
    fs,          \* the working directory: file name -> content
    proc,        \* the engine subprocess the kernel is blocked on
    out, err,    \* the Python variables out, err of the invoker cell
    cmds,        \* history: engine commands launched, in order
    reads,       \* history: reads of engine-produced files
    trace,       \* history: steps executed, in order
    n_compounds, \* n_compounds / n_ethane
    box,         \* number of molecules in the filled box
    lat,         \* the lattice replication cell: prototype, pattern, copies
    rdf,         \* the RDF cells: trajectory, loop position, accumulators
    overrides,   \* directive values the caller of write_gmx_mdp asks for
    topo,        \* the topology-edit cell: particle names, bonds, position
    ff,          \* the force field: the particle types and terms it has rules for
    parametrized, \* the structure ff.apply returned, or None
    mix          \* the box cells: grids, lists of copies, the three boxes

vars == <<wf, pc, halted, error, fs, proc, out, err, cmds, reads, trace,
          n_compounds, box, lat, rdf, overrides,
          topo, ff, parametrized, mix>>

(***************************************************************************)
(* Bounds                                                                  *)
(***************************************************************************)
MaxCompounds == 2
MaxExit == 2
MaxGrid == 2
MaxParticles == 3

Workflows == {"propane", "charmm", "hoomd"}
ExitCodes == 0..MaxExit
\* what a subprocess can print on one stream: nothing, one chunk, two chunks
Streams == {<<>>, <<"a">>, <<"a", "b">>}

(***************************************************************************)
(* Files                                                                   *)
(***************************************************************************)
Bundled == {"files/em.mdp", "files/npt.mdp"}

Artifacts(w) ==
    CASE w = "propane" -> {"out.gro", "out.top", "nvt.mdp", "nvt.tpr", "nvt.edr",
                           "grompp.out", "grompp.err", "mdrun.out", "mdrun.err"}
      [] w = "charmm"  -> {"box.gro", "box.top", "em.tpr", "em.gro", "npt.tpr",
                           "npt.xtc", "npt.gro"}
      [] w = "hoomd"   -> {"box.gsd", "traj.gsd"}

Files == Bundled \cup UNION {Artifacts(w) : w \in Workflows}

\* cur: written during this run; by: the step that wrote it; data: its
\* records; n: the molecule/residue count it declares (0 when it has none)
Absent == [exists |-> FALSE, cur |-> FALSE, by |-> "", data |-> <<>>, n |-> 0]
Stale == [exists |-> TRUE, cur |-> FALSE, by |-> "previous run",
          data |-> <<"old">>, n |-> 1]
Static == [exists |-> TRUE, cur |-> FALSE, by |-> "bundled",
           data |-> <<"mdp">>, n |-> 0]

NonEmpty(c) == c.exists /\ c.data # <<>>

(***************************************************************************)
(* The notebooks' cells, in document order, cut into steps                 *)
(***************************************************************************)
Stages == <<"load", "edit", "replicate", "type", "emit", "invoke", "analyze", "plot">>

StageIdx(s) == CHOOSE i \in DOMAIN Stages : Stages[i] = s

Py(op) == [op |-> op, cmd |-> "", arg |-> ""]
Sub(op, c) == [op |-> op, cmd |-> c, arg |-> ""]
Log(c, stream) == [op |-> "write_log", cmd |-> c, arg |-> stream]

\* mutant: the analysis cell placed before the engine cell
PropaneCellsAnalysisFirst ==
    << Py("mb_load"), Py("edit"), Py("fill_box"), Py("ff_apply"),
       Py("save_gro"), Py("save_top"), Py("edr_to_df"), Py("write_gmx_mdp"),
       Sub("Popen", "grompp"), Sub("communicate", "grompp"),
       Log("grompp", "out"), Log("grompp", "err"),
       Sub("Popen", "mdrun"), Sub("communicate", "mdrun"),
       Log("mdrun", "out"), Log("mdrun", "err"),
       Py("plot") >>

\* trappe-propane.ipynb: one step per statement that acts on the run
PropaneCells ==
    << Py("mb_load"), Py("edit"), Py("fill_box"), Py("ff_apply"),
       Py("save_gro"), Py("save_top"), Py("write_gmx_mdp"),
       Sub("Popen", "grompp"), Sub("communicate", "grompp"),
       Log("grompp", "out"), Log("grompp", "err"),
       Sub("Popen", "mdrun"), Sub("communicate", "mdrun"),
       Log("mdrun", "out"), Log("mdrun", "err"),
       Py("edr_to_df"), Py("plot") >>

\* mutant: the energy-minimisation mdrun cell left out
CharmmCellsNoEmRun ==
    << Py("mb_load"), Py("fill_box"), Py("save_gro"), Py("write_top"),
       Sub("system", "em_grompp"), Sub("system_exit", "em_grompp"),
       Sub("system", "npt_grompp"), Sub("system_exit", "npt_grompp"),
       Sub("system", "npt_mdrun"), Sub("system_exit", "npt_mdrun"),
       Py("mdtraj_load"), Py("plot") >>

\* charmm-gui-gmx.ipynb: a !cmd cell is system(cmd): launch, then block
\* until the command has exited
CharmmCells ==
    << Py("mb_load"), Py("fill_box"), Py("save_gro"), Py("write_top"),
       Sub("system", "em_grompp"), Sub("system_exit", "em_grompp"),
       Sub("system", "em_mdrun"), Sub("system_exit", "em_mdrun"),
       Sub("system", "npt_grompp"), Sub("system_exit", "npt_grompp"),
       Sub("system", "npt_mdrun"), Sub("system_exit", "npt_mdrun"),
       Py("mdtraj_load"), Py("plot") >>

\* the HOOMD notebook: the engine runs inside the kernel process
HoomdCells ==
    << Py("build"), Py("grid_apply"), Py("ff_apply"), Py("write_gsd"),
       Py("hoomd_run"), Py("rdf"), Py("plot") >>

Cells(w) ==
    CASE w = "propane" -> PropaneCells
      [] w = "charmm"  -> CharmmCells
      [] w = "hoomd"   -> HoomdCells

\* the component of the pipeline a step belongs to
StageOf(step) ==
    CASE step.op = "mb_load" -> "load"
      [] step.op \in {"edit", "build"} -> "edit"
      [] step.op \in {"fill_box", "grid_apply"} -> "replicate"
      [] step.op = "ff_apply" -> "type"
      [] step.op \in {"save_gro", "save_top", "write_top", "write_gmx_mdp",
                      "write_gsd"} -> "emit"
      [] step.op \in {"Popen", "communicate", "system", "system_exit",
                      "write_log", "hoomd_run"} -> "invoke"
      [] step.op \in {"edr_to_df", "mdtraj_load", "rdf"} -> "analyze"
      [] step.op = "plot" -> "plot"

(***************************************************************************)
(* The engine command lines: kind, the files named as input, the files     *)
(* the command writes when it succeeds                                     *)
(***************************************************************************)
Commands == {"grompp", "mdrun", "em_grompp", "em_mdrun", "npt_grompp", "npt_mdrun"}

\* mutant: the NPT preprocess is given the packed box, not the minimised one
CmdNptFromBox(c) ==
    CASE c = "grompp" ->
           [kind |-> "preprocess", args |-> {"nvt.mdp", "out.gro", "out.top"},
            outs |-> {"nvt.tpr"}]
      [] c = "mdrun" ->
           [kind |-> "run", args |-> {"nvt.tpr"}, outs |-> {"nvt.edr"}]
      [] c = "em_grompp" ->
           [kind |-> "preprocess", args |-> {"files/em.mdp", "box.gro", "box.top"},
            outs |-> {"em.tpr"}]
      [] c = "em_mdrun" ->
           [kind |-> "run", args |-> {"em.tpr"}, outs |-> {"em.gro"}]
      [] c = "npt_grompp" ->
           [kind |-> "preprocess", args |-> {"files/npt.mdp", "box.gro", "box.top"},
            outs |-> {"npt.tpr"}]
      [] c = "npt_mdrun" ->
           [kind |-> "run", args |-> {"npt.tpr"}, outs |-> {"npt.xtc", "npt.gro"}]

Cmd(c) ==
    CASE c = "grompp" ->
           [kind |-> "preprocess", args |-> {"nvt.mdp", "out.gro", "out.top"},
            outs |-> {"nvt.tpr"}]
      [] c = "mdrun" ->
           [kind |-> "run", args |-> {"nvt.tpr"}, outs |-> {"nvt.edr"}]
      [] c = "em_grompp" ->
           [kind |-> "preprocess", args |-> {"files/em.mdp", "box.gro", "box.top"},
            outs |-> {"em.tpr"}]
      [] c = "em_mdrun" ->
           [kind |-> "run", args |-> {"em.tpr"}, outs |-> {"em.gro"}]
      [] c = "npt_grompp" ->
           [kind |-> "preprocess", args |-> {"files/npt.mdp", "em.gro", "box.top"},
            outs |-> {"npt.tpr"}]
      [] c = "npt_mdrun" ->
           [kind |-> "run", args |-> {"npt.tpr"}, outs |-> {"npt.xtc", "npt.gro"}]

\* the files an engine subprocess writes
EngineFiles == UNION {Cmd(c).outs : c \in Commands}

\* the command that writes file f
Producer(f) == CHOOSE c \in Commands : f \in Cmd(c).outs

(***************************************************************************)
(* Compounds and lattice replication (HOOMD notebook)                      *)
(*                                                                         *)
(* A coordinate is held multiplied by Den, so that the grid fractions i/n  *)
(* stay integers for every n up to MaxGrid.                                *)
(***************************************************************************)
RECURSIVE Fact(_)
Fact(k) == IF k <= 1 THEN 1 ELSE k * Fact(k - 1)

Den == Fact(MaxGrid)

Origin == <<0, 0, 0>>
VAdd(u, v) == <<u[1] + v[1], u[2] + v[2], u[3] + v[3]>>
VSub(u, v) == <<u[1] - v[1], u[2] - v[2], u[3] - v[3]>>
VMul(k, v) == <<k * v[1], k * v[2], k * v[3]>>
Dist2(u, v) ==
    (u[1] - v[1]) * (u[1] - v[1]) + (u[2] - v[2]) * (u[2] - v[2])
        + (u[3] - v[3]) * (u[3] - v[3])

\* mb.Particle(name=...): a new object at the origin
Particle(id, name) == [id |-> id, name |-> name, pos |-> Origin]

\* mb.Compound(): particles in order, bonds as pairs of particle ids
EmptyCompound == [particles |-> <<>>, bonds |-> {}]

\* separation=0.07
PortSeparation == 7
\* methane_grid.scale(0.4)
GridScale == 40

\* mb.Port(anchor=a, orientation=o, separation=d): placed at the anchor,
\* then moved by d along o
Port(anchor, orientation, separation) ==
    [anchor |-> anchor.id, orientation |-> orientation,
     pos |-> VAdd(anchor.pos, VMul(separation * Den, orientation))]

\* mb.force_overlap(move_this, from_positions, to_positions) for two ports
\* that face each other: move_this is translated so that the ports
\* coincide, and the two anchors are bonded
force_overlap(cmpd, move_this, from, to) ==
    [particles |->
        [i \in DOMAIN cmpd.particles |->
            IF cmpd.particles[i].id = move_this
            THEN [cmpd.particles[i] EXCEPT !.pos = VAdd(@, VSub(to.pos, from.pos))]
            ELSE cmpd.particles[i]],
     bonds |-> cmpd.bonds \cup {{from.anchor, to.anchor}}]

\* methane_cmpd: one _CH4 bead
methane_cmpd == [particles |-> <<Particle(1, "_CH4")>>, bonds |-> {}]

\* methanol: a _CH3 and an _OH bead joined through their ports
methanol ==
    LET ch3 == Particle(1, "_CH3")
        oh == Particle(2, "_OH")
        ch3_port == Port(ch3, <<1, 0, 0>>, PortSeparation)
        oh_port == Port(oh, <<-1, 0, 0>>, PortSeparation)
    IN  force_overlap([particles |-> <<ch3, oh>>, bonds |-> {}],
                      oh.id, oh_port, ch3_port)

\* a loaded prototype of p beads in a row, step apart, with the bonds
\* that the topology edit added
Chain(p, step, bonds) ==
    [particles |->
        [i \in 1..p |-> [id |-> i, name |-> "_C",
                         pos |-> <<(i - 1) * step * Den, 0, 0>>]],
     bonds |-> bonds]

ChainSteps == {10, 15}

IdPairs(p) == {{i, j} : i, j \in 1..p} \ {{i} : i \in 1..p}

Prototypes ==
    {methane_cmpd, methanol}
        \cup UNION {{Chain(p, d, b) : d \in ChainSteps, b \in SUBSET IdPairs(p)} :
                      p \in 1..MaxParticles}

\* mb.Grid3DPattern(n, m, l): the points (i/n, j/m, k/l), in the order
\* of product(range(n), range(m), range(l))
Grid3DPattern(n, m, l) ==
    [x \in 1..(n * m * l) |->
        << (((x - 1) \div (m * l)) * Den) \div n,
           ((((x - 1) \div l) % m) * Den) \div m,
           (((x - 1) % l) * Den) \div l >>]

\* pattern.scale(by): every point multiplied by by
scale(points, by) == [x \in DOMAIN points |-> VMul(by, points[x])]

\* mutant: a copy that leaves the bonds behind
cloneNoBonds(cmpd, base) ==
    [particles |->
        [i \in DOMAIN cmpd.particles |->
            [cmpd.particles[i] EXCEPT !.id = base + i]],
     bonds |-> {}]

\* mutant: no copy at all, the same particle objects again
cloneShared(cmpd, base) == cmpd

\* clone(compound): a deep copy, made of new particle objects (ids
\* base+1, base+2, ...) with the same names, positions and bonds
clone(cmpd, base) ==
    LET new(id) == base + CHOOSE i \in DOMAIN cmpd.particles :
                                cmpd.particles[i].id = id
    IN  [particles |->
            [i \in DOMAIN cmpd.particles |->
                [cmpd.particles[i] EXCEPT !.id = base + i]],
         bonds |-> {{new(id) : id \in b} : b \in cmpd.bonds}]

\* compound.translate(by)
translate(cmpd, by) ==
    [cmpd EXCEPT !.particles =
        [i \in DOMAIN cmpd.particles |->
            [cmpd.particles[i] EXCEPT !.pos = VAdd(@, by)]]]

\* pattern.apply(compound): for each point a clone of the compound
\* translated to the point, collected in a list
apply(points, cmpd, nextId) ==
    [x \in DOMAIN points |->
        translate(clone(cmpd, nextId + (x - 1) * Len(cmpd.particles)),
                  points[x])]

\* mb.Compound(list_of_compounds): one compound holding every part
Compound(list) ==
    [particles |-> UNION {{c.particles[i] : i \in DOMAIN c.particles} :
                            c \in {list[x] : x \in DOMAIN list}},
     bonds |-> UNION {list[x].bonds : x \in DOMAIN list}]

\* n_particles / n_bonds of a compound
n_particles(cmpd) == Cardinality({q.id : q \in cmpd.particles})
n_bonds(cmpd) == Cardinality(cmpd.bonds)

NoLattice ==
    [at |-> "off", proto |-> EmptyCompound, dims |-> <<1, 1, 1>>,
     points |-> <<>>, list |-> <<>>, box |-> [particles |-> {}, bonds |-> {}]]

(***************************************************************************)
(* The RDF cells.  Lengths are in units of 0.01 nm.  A frame of the        *)
(* trajectory holds the type names, one type index per particle (counted   *)
(* from 0, as in the file) and one position per particle.                  *)
(***************************************************************************)
MaxFrames == 3

bins == 50
\* r_max = 2 (nm)
r_max == 200

RDFs == {"ch3_ch3_rdf", "ch4_ch4_rdf", "oh_oh_rdf",
         "ch3_ch4_rdf", "ch3_oh_rdf", "ch4_oh_rdf"}

\* the type each accumulator of the frame loop is computed for
Computed ==
    [ch3_ch3_rdf |-> "CH3", ch4_ch4_rdf |-> "CH4", oh_oh_rdf |-> "OH"]

\* a frame of two methanes and two methanols; the two beads of one type
\* are d (CH4), 2d (CH3) and d + 10 (OH) apart
Snapshot(d) ==
    [types |-> <<"CH3", "CH4", "OH">>,
     typeid |-> <<1, 1, 0, 2, 0, 2>>,
     position |-> << <<0, 0, 0>>, <<d, 0, 0>>,
                     <<0, 100, 0>>, <<14, 100, 0>>,
                     <<0, 100, 2 * d>>, <<14, 100, d + 10>> >>]

FrameGaps == {30, 50, 120}
Frames == {Snapshot(d) : d \in FrameGaps}
Trajectories == UNION {[1..k -> Frames] : k \in 1..MaxFrames}

\* freud.density.RDF(bins, r_max): an empty histogram
RDF == [b \in 1..bins |-> 0]

\* types.index(typename), counted from 0
index(types, typename) ==
    (CHOOSE k \in DOMAIN types : types[k] = typename) - 1

\* np.where(typeid == types.index(typename))[0]
get_ids(frame, typename) ==
    {i \in DOMAIN frame.typeid : frame.typeid[i] = index(frame.types, typename)}

\* the bin of a pair at squared distance d2: bin b covers
\* [(b-1) r_max / bins, b r_max / bins); pairs at r_max or beyond are not
\* counted (bin 0)
BinOf(d2) ==
    IF d2 * bins * bins >= (bins * r_max) * (bins * r_max) THEN 0
    ELSE CHOOSE b \in 1..bins :
            /\ ((b - 1) * r_max) * ((b - 1) * r_max) <= d2 * bins * bins
            /\ d2 * bins * bins < (b * r_max) * (b * r_max)

\* the bin counts of one frame: every ordered pair of distinct selected
\* particles closer than r_max
Histogram(frame, ids) ==
    [b \in 1..bins |->
        Cardinality({pr \in ids \X ids :
                       /\ pr[1] # pr[2]
                       /\ BinOf(Dist2(frame.position[pr[1]],
                                      frame.position[pr[2]])) = b})]

\* mutant: every call starts from an empty histogram
computeReset(acc, frame, ids, reset) == Histogram(frame, ids)

\* rdf.compute(system=(box, positions), reset=...)
compute(acc, frame, ids, reset) ==
    LET base == IF reset THEN RDF ELSE acc
    IN  [b \in 1..bins |-> base[b] + Histogram(frame, ids)[b]]

NoRDF == [at |-> "closed", traj |-> <<>>, i |-> 0, acc |-> [a \in {} |-> RDF]]

(***************************************************************************)
(* The run-control file.  A text is a sequence of lines; a line is blank,  *)
(* a comment (key ";") or a directive `key = value ; comment`.             *)
(***************************************************************************)
L(key, value, comment) == [key |-> key, value |-> value, comment |-> comment]

\* the text write_gmx_mdp writes, line by line
Template ==
    <<L("", "", ""),
      L("title", "NVT Equilibration", ""),
      L(";", "", "Run parameters"),
      L("integrator", "md", "leap-frog integrator"),
      L("nsteps", "100000", "2 * 5000 = 10ps"),
      L("dt", "0.002", "2 fs"),
      L("", "", ""),
      L(";", "", "Output control"),
      L("nstxout", "500", "Every 1.0 ps"),
      L("nstvout", "500", ""),
      L("nstenergy", "500", ""),
      L("nstlog", "500", ""),
      L("", "", ""),
      L(";", "", "Bond parameters"),
      L("continuation", "no", ""),
      L("constraint_algorithm", "lincs", ""),
      L("constraints", "all-bonds", ""),
      L("lincs_iter", "1", ""),
      L("lincs_order", "4", ""),
      L("", "", ""),
      L(";", "", "Neighbor searching"),
      L("cutoff-scheme", "Verlet", ""),
      L("nstype", "grid", ""),
      L("nstlist", "10", ""),
      L("rcoulomb", "1.4", ""),
      L("rvdw", "1.4", ""),
      L("", "", ""),
      L(";", "", "Electrostatics"),
      L("coulombtype", "PME", ""),
      L("pme_order", "4", ""),
      L("fourierspacing", "0.16", ""),
      L("", "", ""),
      L(";", "", "Temperature coupling"),
      L("tcoupl", "nose-hoover", ""),
      L("tc-grps", "system", ""),
      L("tau_t", "0.4", ""),
      L("ref_t", "300", ""),
      L("", "", ""),
      L(";", "", "Pressure coupling"),
      L("pcoupl", "no", ""),
      L("", "", ""),
      L(";", "", "Periodic boundary conditions"),
      L("pbc", "xyz", ""),
      L("", "", ""),
      L(";", "", "Dispersion correction"),
      L("DispCorr", "EnerPres", ""),
      L("", "", ""),
      L(";", "", "Velocity generation"),
      L("gen_vel", "yes", ""),
      L("gen_temp", "300", ""),
      L("gen_seed", "-1", "") >>

\* the nvt.mdp shipped with the notebook, line by line
nvt_mdp ==
    <<L("title", "NVT Equilibration", ""),
      L(";", "", "Run parameters"),
      L("integrator", "md", "leap-frog integrator"),
      L("nsteps", "100000", "2 * 5000 = 10ps"),
      L("dt", "0.002", "2 fs"),
      L("", "", ""),
      L(";", "", "Output control"),
      L("nstxout", "500", "Every 1.0 ps"),
      L("nstvout", "500", ""),
      L("nstenergy", "500", ""),
      L("nstlog", "500", ""),
      L("", "", ""),
      L(";", "", "Bond parameters"),
      L("continuation", "no", ""),
      L("constraint_algorithm", "lincs", ""),
      L("constraints", "all-bonds", ""),
      L("lincs_iter", "1", ""),
      L("lincs_order", "4", ""),
      L("", "", ""),
      L(";", "", "Neighbor searching"),
      L("cutoff-scheme", "Verlet", ""),
      L("nstype", "grid", ""),
      L("nstlist", "10", ""),
      L("rcoulomb", "1.4", ""),
      L("rvdw", "1.4", ""),
      L("", "", ""),
      L(";", "", "Electrostatics"),
      L("coulombtype", "PME", ""),
      L("pme_order", "4", ""),
      L("fourierspacing", "0.16", ""),
      L("", "", ""),
      L(";", "", "Temperature coupling"),
      L("tcoupl", "nose-hoover", ""),
      L("tc-grps", "system", ""),
      L("tau_t", "0.4", ""),
      L("ref_t", "300", ""),
      L("", "", ""),
      L(";", "", "Pressure coupling"),
      L("pcoupl", "no", ""),
      L("", "", ""),
      L(";", "", "Periodic boundary conditions"),
      L("pbc", "xyz", ""),
      L("", "", ""),
      L(";", "", "Dispersion correction"),
      L("DispCorr", "EnerPres", ""),
      L("", "", ""),
      L(";", "", "Velocity generation"),
      L("gen_vel", "yes", ""),
      L("gen_temp", "300", ""),
      L("gen_seed", "-1", "") >>

\* the directives of a text and the value on the line of each
Keys(text) == {text[i].key : i \in DOMAIN text} \ {"", ";"}
Directives(text) ==
    [k \in Keys(text) |->
        text[CHOOSE i \in DOMAIN text :
                /\ text[i].key = k
                /\ \A j \in DOMAIN text : text[j].key = k => j <= i].value]

\* mutant: the last line of the template is lost
f_writeTruncated(filename) == SubSeq(Template, 1, Len(Template) - 1)

\* def write_gmx_mdp(filename): the text f.write(...) puts into the file;
\* the function has no parameter but the file name
f_write(filename) == Template

\* values a caller may want on the directives the template could expose:
\* the notebook's own value first, then a different one
Wanted ==
    [nsteps |-> {"100000", "50000"}, dt |-> {"0.002", "0.001"},
     ref_t |-> {"300", "350"}, rcoulomb |-> {"1.4", "1.2"},
     tau_t |-> {"0.4", "1.0"}]
OverrideSets ==
    UNION {{o \in [K -> UNION {Wanted[k] : k \in K}] :
               \A k \in K : o[k] \in Wanted[k]} : K \in SUBSET DOMAIN Wanted}
NoOverrides == [k \in {} |-> ""]

(***************************************************************************)
(* The topology-edit cell and the typer's element inference.  A name is a  *)
(* sequence of characters.                                                 *)
(***************************************************************************)
\* names mb.load may give a particle
Names == {<<"C">>, <<"H">>, <<"C", "1">>, <<"X", "C">>, <<"_", "C">>, <<>>}

\* s[1:]
Drop1(s) == IF s = <<>> THEN <<>> ELSE Tail(s)

\* statements of the cell; particles are indexed from 0 as in the source
Rename(i, strip) == [op |-> "rename", i |-> i, j |-> i, strip |-> strip]
AddBond(i, j) == [op |-> "add_bond", i |-> i, j |-> j, strip |-> FALSE]

\* mutant: the first bond is added before the last rename
EditCellBondFirst ==
    << Rename(0, TRUE), Rename(1, FALSE), AddBond(0, 1), Rename(2, TRUE),
       AddBond(1, 2) >>

EditCell ==
    << Rename(0, TRUE), Rename(1, FALSE), Rename(2, TRUE),
       AddBond(0, 1), AddBond(1, 2) >>

\* mutant: the name is kept when it already has its first character cut
renamedKept(name, strip) == IF strip THEN Drop1(name) ELSE <<"_">> \o name

\* "_" + name[1:]   or   "_" + name
renamed(name, strip) == <<"_">> \o (IF strip THEN Drop1(name) ELSE name)

\* cmpd.add_bond((a, b)): an edge of the bond graph, nothing is validated
add_bond(bonds, a, b) == bonds \cup {{a, b}}

\* element symbols the typer knows
Elements == {<<"C">>, <<"H">>, <<"O">>}

\* element inference of the typer: a name that begins with an underscore
\* is a custom (non-periodic) element named after the particle and no
\* lookup is made; any other name is looked up among the elements
infer(name) ==
    IF name # <<>> /\ Head(name) = "_"
    THEN [custom |-> TRUE, lookup |-> FALSE, symbol |-> name]
    ELSE [custom |-> FALSE, lookup |-> TRUE,
          symbol |-> IF name \in Elements THEN name ELSE <<>>]

NoCompound ==
    [at |-> 0, loaded |-> <<>>, names |-> <<>>, bonds |-> {}, log |-> <<>>,
     raised |-> FALSE, elements |-> <<>>]

(***************************************************************************)
(* The typer.  A structure needs a rule for each of its particle types and *)
(* each of its bonded terms; a force field is the set of those it has a    *)
(* rule for.                                                               *)
(***************************************************************************)
Structure(w) ==
    CASE w = "propane" -> [particles |-> {"CH3", "CH2"},
                           terms |-> {"CH3-CH2", "CH3-CH2-CH3"}]
      [] w = "hoomd"   -> [particles |-> {"_CH4", "_CH3", "_OH"},
                           terms |-> {"_CH3-_OH"}]
      [] OTHER         -> [particles |-> {}, terms |-> {}]

Needed(structure) == structure.particles \cup structure.terms

\* the force fields a run may be given; FF has a rule for everything
FF == Needed(Structure("propane")) \cup Needed(Structure("hoomd"))
ForceFields(w) == SUBSET Needed(Structure(w))

None == [e \in {} |-> ""]

\* mutant: the typer returns whatever it could match
apply_ffLenient(rules, structure) ==
    [ok |-> TRUE, params |-> [e \in Needed(structure) \cap rules |-> e]]

\* ff.apply(structure): every particle and every term is matched against
\* the rules; an unmatched one is an error, otherwise each gets the
\* parameters of its rule
apply_ff(rules, structure) ==
    IF Needed(structure) \subseteq rules
    THEN [ok |-> TRUE, params |-> [e \in Needed(structure) |-> e]]
    ELSE [ok |-> FALSE, params |-> None]

(***************************************************************************)
(* The box cells: the methane box, the methanol box moved above it, and    *)
(* the mixture of the two                                                  *)
(***************************************************************************)
\* compound.translate(by) for a compound of compounds: every particle moves
translate_box(b, by) ==
    [b EXCEPT !.particles = {[q EXCEPT !.pos = VAdd(@, by)] : q \in b.particles}]

\* max(methane_box.xyz[:, 2])
max_z(b) ==
    CHOOSE z \in {q.pos[3] : q \in b.particles} :
        \A q \in b.particles : q.pos[3] <= z

\* mutant: the factor 1.1 left out
shiftNoMargin(z) == z

\* 1.1 * z
shift(z) == (11 * z) \div 10

\* particle objects created so far
last_id(list) ==
    IF list = <<>> THEN 0
    ELSE list[Len(list)].particles[Len(list[Len(list)].particles)].id

NoMixture ==
    [at |-> "none", dims |-> <<0, 0, 0>>, dims2 |-> <<0, 0, 0>>,
     methane_grid |-> <<>>, methanol_grid |-> <<>>,
     list_of_methanes |-> <<>>, list_of_methanols |-> <<>>,
     methane_box |-> [particles |-> {}, bonds |-> {}],
     methanol_box |-> [particles |-> {}, bonds |-> {}],
     mixture_box |-> [particles |-> {}, bonds |-> {}]]

(***************************************************************************)
(* State after opening the notebook in its directory                       *)
(***************************************************************************)
NoError == [stage |-> "none", text |-> <<>>]
NoProc == [cmd |-> "", running |-> FALSE]

\* The working directory holds the bundled inputs and, when the notebook
\* was run there before (every writer overwrites), that run's artifacts.
InitFs(w, rerun) ==
    [f \in Files |->
        IF f \in Bundled THEN Static
        ELSE IF rerun /\ f \in Artifacts(w) THEN Stale
        ELSE Absent]

Init ==
    /\ wf \in Workflows
    /\ pc = 1
    /\ halted = FALSE
    /\ error = NoError
    /\ \E rerun \in BOOLEAN : fs = InitFs(wf, rerun)
    /\ proc = NoProc
    /\ out = <<>>
    /\ err = <<>>
    /\ cmds = <<>>
    /\ reads = {}
    /\ trace = <<>>
    /\ n_compounds \in 1..MaxCompounds
    /\ box = 0
    /\ lat = NoLattice
    /\ rdf = NoRDF
    /\ overrides = NoOverrides
    /\ topo = NoCompound
    /\ mix = NoMixture
    /\ ff \in ForceFields(wf)
    /\ parametrized = None

(***************************************************************************)
(* Notebook execution                                                      *)
(***************************************************************************)
Running == ~halted /\ pc <= Len(Cells(wf))
Done == ~halted /\ pc > Len(Cells(wf))
Cur == Cells(wf)[pc]
At(ops) == Running /\ ~proc.running /\ Cur.op \in ops

\* Run All executes the cell that follows in the document
NextCell(i) == i + 1

Event(ok) == [step |-> Cur, stage |-> StageOf(Cur), ok |-> ok]

\* the current step returns normally
Return ==
    /\ pc' = NextCell(pc)
    /\ trace' = Append(trace, Event(TRUE))
    /\ UNCHANGED <<halted, error>>

\* the current step raises: the kernel reports the exception and executes
\* no further cell
Raise ==
    /\ halted' = TRUE
    /\ error' = [stage |-> StageOf(Cur), text |-> <<"Traceback">>]
    /\ trace' = Append(trace, Event(FALSE))
    /\ UNCHANGED pc

\* mutant: the file opened with mode 'a'
OpenA(old, by, data, n) ==
    [exists |-> TRUE, cur |-> TRUE, by |-> by, data |-> old.data \o data, n |-> n]

\* open(name, 'w') / save(..., overwrite=True): the file is truncated, then
\* holds what this step writes
OpenW(old, by, data, n) ==
    [exists |-> TRUE, cur |-> TRUE, by |-> by, data |-> data, n |-> n]

(***************************************************************************)
(* Builder, typer and emitter cells                                        *)
(***************************************************************************)
Constant == <<wf, n_compounds, lat, rdf, overrides, topo, ff, mix>>
Frame == <<Constant, parametrized>>

\* mb.load(...): the prototype is read, or the load raises
mb_load ==
    /\ At({"mb_load"})
    /\ Return \/ Raise
    /\ UNCHANGED <<Frame, fs, proc, out, err, cmds, reads, box>>

\* renames and add_bond (propane); particles, ports, force_overlap (hoomd)
edit ==
    /\ At({"edit", "build"})
    /\ Return \/ Raise
    /\ UNCHANGED <<Frame, fs, proc, out, err, cmds, reads, box>>

\* mb.fill_box(compound, n_compounds=...): a box of n_compounds copies of
\* the prototype, or the packing raises
fill_box ==
    /\ At({"fill_box"})
    /\ \/ Return /\ box' = n_compounds
       \/ Raise /\ UNCHANGED box
    /\ UNCHANGED <<Frame, fs, proc, out, err, cmds, reads>>

\* Grid3DPattern(2, 2, 2).apply(...) and mb.Compound(list)
grid_apply ==
    /\ At({"grid_apply"})
    /\ Return \/ Raise
    /\ UNCHANGED <<Frame, fs, proc, out, err, cmds, reads, box>>

\* Forcefield(...).apply(structure): a parametrized structure, or raises
ff_apply ==
    /\ At({"ff_apply"})
    /\ \/ /\ apply_ff(ff, Structure(wf)).ok
          /\ parametrized' = apply_ff(ff, Structure(wf)).params
          /\ Return
       \/ Raise /\ UNCHANGED parametrized
    /\ UNCHANGED <<Constant, fs, proc, out, err, cmds, reads, box>>

GroFile(w) == IF w = "propane" THEN "out.gro" ELSE "box.gro"

\* parametrized.save('out.gro', overwrite=True)
\* ethane_box.save('box.gro', residues=['ETHA'], overwrite=True)
\* one residue per molecule of the box
save_gro ==
    /\ At({"save_gro"})
    /\ \/ /\ Return
          /\ fs' = [fs EXCEPT ![GroFile(wf)] =
                        OpenW(@, "save_gro", <<"gro">>, box)]
       \/ Raise /\ UNCHANGED fs
    /\ UNCHANGED <<Frame, proc, out, err, cmds, reads, box>>

\* parametrized.save('out.top', overwrite=True)
save_top ==
    /\ At({"save_top"})
    /\ \/ /\ Return
          /\ fs' = [fs EXCEPT !["out.top"] = OpenW(@, "save_top", <<"top">>, box)]
       \/ Raise /\ UNCHANGED fs
    /\ UNCHANGED <<Frame, proc, out, err, cmds, reads, box>>

\* mutant: the count written is one short of the molecules packed
MoleculesOffByOne == n_compounds - 1

\* the [ Molecules ] line: "{} {}".format(prototype.name, n_ethane)
Molecules == n_compounds

\* with open('box.top', 'w') as f: ... f.write("{} {}".format(...))
write_top ==
    /\ At({"write_top"})
    /\ \/ /\ Return
          /\ fs' = [fs EXCEPT !["box.top"] =
                        OpenW(@, "write_top", <<"top">>, Molecules)]
       \/ Raise /\ UNCHANGED fs
    /\ UNCHANGED <<Frame, proc, out, err, cmds, reads, box>>

\* write_gmx_mdp('nvt.mdp')
write_gmx_mdp ==
    /\ At({"write_gmx_mdp"})
    /\ \/ /\ Return
          /\ fs' = [fs EXCEPT !["nvt.mdp"] =
                        OpenW(@, "write_gmx_mdp", f_write("nvt.mdp"), 0)]
       \/ Raise /\ UNCHANGED fs
    /\ UNCHANGED <<Frame, proc, out, err, cmds, reads, box>>

\* write_gsd(struc, 'box.gsd')
write_gsd ==
    /\ At({"write_gsd"})
    /\ \/ /\ Return
          /\ fs' = [fs EXCEPT !["box.gsd"] = OpenW(@, "write_gsd", <<"gsd">>, 0)]
       \/ Raise /\ UNCHANGED fs
    /\ UNCHANGED <<Frame, proc, out, err, cmds, reads, box>>

(***************************************************************************)
(* Engine invoker                                                          *)
(***************************************************************************)
\* cmds: per launched command its exit status (-1 while it runs), the
\* input files this run had emitted when it was launched, and the streams
\* communicate() captured from it
NotRun ==
    [cmd |-> "", exit |-> -1, args |-> {}, emitted |-> {}, out |-> <<>>,
     err |-> <<>>]

CmdRec(c) ==
    IF \E i \in DOMAIN cmds : cmds[i].cmd = c
    THEN cmds[CHOOSE i \in DOMAIN cmds : cmds[i].cmd = c]
    ELSE NotRun

\* the exit status of command c in this run; -1 when it has not exited
LastExit(c) == CmdRec(c).exit

\* reader opens the engine-written file f as it is now
ReadOf(reader, f) ==
    [reader |-> reader, file |-> f, cur |-> fs[f].cur,
     nonempty |-> NonEmpty(fs[f]), rc |-> LastExit(Producer(f))]

ReadsOf(reader, files) ==
    {ReadOf(reader, f) : f \in {g \in files \cap EngineFiles : fs[g].exists}}

\* the files among fileset that this run has written so far, completely
EmittedNow(fileset) == {f \in fileset : fs[f].cur /\ NonEmpty(fs[f])}

\* p = subprocess.Popen(cmd, shell=True, ...) / the launch half of !cmd:
\* the shell starts whatever the previous steps left behind
Popen ==
    /\ At({"Popen", "system"})
    /\ proc' = [cmd |-> Cur.cmd, running |-> TRUE]
    /\ cmds' = Append(cmds, [cmd |-> Cur.cmd, exit |-> -1,
                              args |-> Cmd(Cur.cmd).args,
                              emitted |-> EmittedNow(Cmd(Cur.cmd).args),
                              out |-> <<>>, err |-> <<>>])
    /\ reads' = reads \cup ReadsOf(Cur.cmd, Cmd(Cur.cmd).args)
    /\ Return
    /\ UNCHANGED <<Frame, fs, out, err, box>>

\* What the engine leaves on disk when it exits: all of its outputs when it
\* exits with 0; on a failure nothing, or its outputs truncated.
EngineWrites(c, rc, truncated) ==
    [f \in Files |->
        IF f \in Cmd(c).outs /\ rc = 0 THEN OpenW(fs[f], c, <<"data">>, 0)
        ELSE IF f \in Cmd(c).outs /\ truncated THEN OpenW(fs[f], c, <<>>, 0)
        ELSE fs[f]]

\* the exits the engine can take: it cannot succeed without its inputs;
\* grompp writes its output last, so only a run command that dies under
\* way leaves truncated files
CanExit(c, rc, truncated) ==
    /\ rc = 0 => \A a \in Cmd(c).args : NonEmpty(fs[a])
    /\ truncated => rc # 0 /\ Cmd(c).kind = "run"

\* the subprocess has exited with rc: the invoker goes on to its next
\* statement whatever rc is (p.returncode is never looked at, and !cmd
\* raises nothing)
Exited(rc, o, e) ==
    /\ proc' = NoProc
    /\ cmds' = [cmds EXCEPT ![Len(cmds)].exit = rc,
                            ![Len(cmds)].out = o, ![Len(cmds)].err = e]
    /\ pc' = NextCell(pc)
    /\ trace' = Append(trace, Event(rc = 0))
    /\ UNCHANGED <<halted, error>>

\* mutant: communicate(timeout=...) gives up on a subprocess still running
communicateTimeout ==
    /\ Running /\ proc.running /\ Cur.op = "communicate"
    /\ \/ \E rc \in ExitCodes, o \in Streams, e \in Streams, truncated \in BOOLEAN :
             /\ CanExit(proc.cmd, rc, truncated)
             /\ fs' = EngineWrites(proc.cmd, rc, truncated)
             /\ out' = o
             /\ err' = e
             /\ Exited(rc, o, e)
       \/ /\ proc' = NoProc
          /\ Raise
          /\ UNCHANGED <<fs, out, err, cmds>>
    /\ UNCHANGED <<Frame, reads, box>>

\* out, err = p.communicate(): blocks until the subprocess has exited and
\* returns everything it wrote to its two pipes
communicate ==
    /\ Running /\ proc.running /\ Cur.op = "communicate"
    /\ \E rc \in ExitCodes, o \in Streams, e \in Streams, truncated \in BOOLEAN :
          /\ CanExit(proc.cmd, rc, truncated)
          /\ fs' = EngineWrites(proc.cmd, rc, truncated)
          /\ out' = o
          /\ err' = e
          /\ Exited(rc, o, e)
    /\ UNCHANGED <<Frame, reads, box>>

\* the blocking half of !cmd: the streams go to the cell's output area
system_exit ==
    /\ Running /\ proc.running /\ Cur.op = "system_exit"
    /\ \E rc \in ExitCodes, truncated \in BOOLEAN :
          /\ CanExit(proc.cmd, rc, truncated)
          /\ fs' = EngineWrites(proc.cmd, rc, truncated)
          /\ Exited(rc, <<>>, <<>>)
    /\ UNCHANGED <<Frame, out, err, reads, box>>

LogFile(c, stream) ==
    CASE c = "grompp" /\ stream = "out" -> "grompp.out"
      [] c = "grompp" /\ stream = "err" -> "grompp.err"
      [] c = "mdrun" /\ stream = "out" -> "mdrun.out"
      [] c = "mdrun" /\ stream = "err" -> "mdrun.err"

\* with open('grompp.out', 'w') as f: f.write(out)   (and .err, mdrun.*)
write_log ==
    /\ At({"write_log"})
    /\ fs' = [fs EXCEPT ![LogFile(Cur.cmd, Cur.arg)] =
                  OpenW(@, "write_log", IF Cur.arg = "out" THEN out ELSE err, 0)]
    /\ Return
    /\ UNCHANGED <<Frame, proc, out, err, cmds, reads, box>>

\* hoomd.init.read_gsd('box.gsd') ... hoomd.dump.gsd('traj.gsd', ...,
\* overwrite=True); hoomd.run(1e7): in-process, raises on failure
hoomd_run ==
    /\ At({"hoomd_run"})
    /\ \/ /\ NonEmpty(fs["box.gsd"])
          /\ Return
          /\ fs' = [fs EXCEPT !["traj.gsd"] = OpenW(@, "hoomd_run", <<"frames">>, 0)]
       \/ /\ Raise
          /\ \/ UNCHANGED fs
             \/ fs' = [fs EXCEPT !["traj.gsd"] = OpenW(@, "hoomd_run", <<>>, 0)]
    /\ UNCHANGED <<Frame, proc, out, err, cmds, reads, box>>

(***************************************************************************)
(* Analyzer and plotter                                                    *)
(***************************************************************************)
AnalyzerInputs(w) ==
    CASE w = "propane" -> {"nvt.edr"}
      [] w = "charmm"  -> {"npt.xtc", "npt.gro"}
      [] w = "hoomd"   -> {"traj.gsd"}

\* panedr.edr_to_df('nvt.edr') / mdtraj.load('npt.xtc', top='npt.gro') /
\* gsd.hoomd.open('traj.gsd') and the RDF loop: opens whatever file of
\* that name is in the directory; raises when it is missing or unreadable
analyze ==
    /\ At({"edr_to_df", "mdtraj_load", "rdf"})
    /\ reads' = reads \cup ReadsOf("analyzer", AnalyzerInputs(wf))
    /\ \/ /\ \A f \in AnalyzerInputs(wf) : NonEmpty(fs[f])
          /\ Return
       \/ Raise
    /\ UNCHANGED <<Frame, fs, proc, out, err, cmds, box>>

\* the matplotlib cell
plot ==
    /\ At({"plot"})
    /\ Return \/ Raise
    /\ UNCHANGED <<Frame, fs, proc, out, err, cmds, reads, box>>

Next ==
    \/ mb_load
    \/ edit
    \/ fill_box
    \/ grid_apply
    \/ ff_apply
    \/ save_gro
    \/ save_top
    \/ write_top
    \/ write_gmx_mdp
    \/ write_gsd
    \/ Popen
    \/ communicate
    \/ system_exit
    \/ write_log
    \/ hoomd_run
    \/ analyze
    \/ plot

Spec == Init /\ [][Next]_vars

\* The kernel executes the next statement as soon as the one before has
\* returned; a launched subprocess that is going to exit does exit.
Kernel ==
    \/ mb_load
    \/ edit
    \/ fill_box
    \/ grid_apply
    \/ ff_apply
    \/ save_gro
    \/ save_top
    \/ write_top
    \/ write_gmx_mdp
    \/ write_gsd
    \/ Popen
    \/ write_log
    \/ hoomd_run
    \/ analyze
    \/ plot
SubprocessExit == communicate \/ system_exit

\* the runs in which every launched subprocess eventually exits
SpecLive == Spec /\ WF_vars(Kernel) /\ WF_vars(SubprocessExit)

(***************************************************************************)
(* The replication cell on its own: a prototype and a grid shape are       *)
(* drawn, then the four statements of the cell run                         *)
(*     grid = mb.Grid3DPattern(n, m, l); grid.scale(0.4)                   *)
(*     list_of_copies = grid.apply(prototype); box = mb.Compound(list)     *)
(***************************************************************************)
Pipeline == <<wf, pc, halted, error, fs, proc, out, err, cmds, reads, trace,
              n_compounds, box>>

InitLattice ==
    /\ wf = "hoomd"
    /\ pc = 2
    /\ halted = FALSE
    /\ error = NoError
    /\ fs = InitFs("hoomd", FALSE)
    /\ proc = NoProc
    /\ out = <<>>
    /\ err = <<>>
    /\ cmds = <<>>
    /\ reads = {}
    /\ trace = <<[step |-> Py("build"), stage |-> "edit", ok |-> TRUE]>>
    /\ n_compounds = 1
    /\ box = 0
    /\ rdf = NoRDF
    /\ overrides = NoOverrides
    /\ topo = NoCompound
    /\ mix = NoMixture
    /\ ff = FF
    /\ parametrized = None
    /\ \E proto \in Prototypes, n \in 1..MaxGrid, m \in 1..MaxGrid, l \in 1..MaxGrid :
          lat = [NoLattice EXCEPT !.at = "start", !.proto = proto,
                                  !.dims = <<n, m, l>>]

MakeGrid ==
    /\ lat.at = "start"
    /\ lat' = [lat EXCEPT !.at = "grid",
                          !.points = Grid3DPattern(lat.dims[1], lat.dims[2],
                                                   lat.dims[3])]
    /\ UNCHANGED <<Pipeline, rdf, overrides, topo, ff, parametrized, mix>>

ScaleGrid ==
    /\ lat.at = "grid"
    /\ lat' = [lat EXCEPT !.at = "scaled", !.points = scale(lat.points, GridScale)]
    /\ UNCHANGED <<Pipeline, rdf, overrides, topo, ff, parametrized, mix>>

ApplyGrid ==
    /\ lat.at = "scaled"
    /\ lat' = [lat EXCEPT !.at = "applied",
                          !.list = apply(lat.points, lat.proto,
                                         Len(lat.proto.particles))]
    /\ UNCHANGED <<Pipeline, rdf, overrides, topo, ff, parametrized, mix>>

MakeBox ==
    /\ lat.at = "applied"
    /\ lat' = [lat EXCEPT !.at = "boxed", !.box = Compound(lat.list)]
    /\ UNCHANGED <<Pipeline, rdf, overrides, topo, ff, parametrized, mix>>

NextLattice ==
    \/ MakeGrid
    \/ ScaleGrid
    \/ ApplyGrid
    \/ MakeBox

SpecLattice == InitLattice /\ [][NextLattice]_vars

(***************************************************************************)
(* The RDF cells on their own: the trajectory is opened, the six RDF       *)
(* objects are created, then the loop body runs once per frame             *)
(***************************************************************************)
\* the cells executed before the RDF cells
BeforeRDF ==
    (CHOOSE i \in DOMAIN HoomdCells : HoomdCells[i].op = "rdf") - 1

InitRDF ==
    /\ wf = "hoomd"
    /\ pc = BeforeRDF + 1
    /\ halted = FALSE
    /\ error = NoError
    /\ fs = [InitFs("hoomd", FALSE) EXCEPT
                !["traj.gsd"] = OpenW(@, "hoomd_run", <<"frames">>, 0)]
    /\ proc = NoProc
    /\ out = <<>>
    /\ err = <<>>
    /\ cmds = <<>>
    /\ reads = {}
    /\ trace = [i \in 1..BeforeRDF |->
                  [step |-> HoomdCells[i], stage |-> StageOf(HoomdCells[i]),
                   ok |-> TRUE]]
    /\ n_compounds = 1
    /\ box = 0
    /\ lat = NoLattice
    /\ rdf = NoRDF
    /\ overrides = NoOverrides
    /\ topo = NoCompound
    /\ mix = NoMixture
    /\ ff = FF
    /\ parametrized = apply_ff(ff, Structure("hoomd")).params

\* hoomd_traj = gsd.hoomd.open(name='traj.gsd', mode='rb')
gsd_open ==
    /\ rdf.at = "closed"
    /\ \E traj \in Trajectories : rdf' = [rdf EXCEPT !.at = "open", !.traj = traj]
    /\ UNCHANGED <<Pipeline, lat, overrides, topo, ff, parametrized, mix>>

\* the six freud.density.RDF(bins, r_max) objects
RDF_init ==
    /\ rdf.at = "open"
    /\ rdf' = [rdf EXCEPT !.at = "loop", !.i = 1, !.acc = [a \in RDFs |-> RDF]]
    /\ UNCHANGED <<Pipeline, lat, overrides, topo, ff, parametrized, mix>>

\* one pass of `for frame in hoomd_traj:`
frame_loop ==
    /\ rdf.at = "loop"
    /\ rdf.i <= Len(rdf.traj)
    /\ LET frame == rdf.traj[rdf.i]
       IN  rdf' = [rdf EXCEPT
                     !.i = @ + 1,
                     !.acc = [a \in RDFs |->
                                IF a \in DOMAIN Computed
                                THEN compute(rdf.acc[a], frame,
                                             get_ids(frame, Computed[a]), FALSE)
                                ELSE rdf.acc[a]]]
    /\ UNCHANGED <<Pipeline, lat, overrides, topo, ff, parametrized, mix>>

NextRDF ==
    \/ gsd_open
    \/ RDF_init
    \/ frame_loop

SpecRDF == InitRDF /\ [][NextRDF]_vars

(***************************************************************************)
(* The run-control cell on its own: the propane notebook has emitted       *)
(* out.gro and out.top, the caller wants some directive values, and        *)
(* write_gmx_mdp('nvt.mdp') runs                                           *)
(***************************************************************************)
\* the cells executed before the run-control cell
BeforeMdp ==
    (CHOOSE i \in DOMAIN PropaneCells : PropaneCells[i].op = "write_gmx_mdp") - 1

InitMdp ==
    /\ wf = "propane"
    /\ pc = BeforeMdp + 1
    /\ halted = FALSE
    /\ error = NoError
    /\ n_compounds \in 1..MaxCompounds
    /\ box = n_compounds
    /\ \E rerun \in BOOLEAN :
          fs = [InitFs("propane", rerun) EXCEPT
                  !["out.gro"] = OpenW(@, "save_gro", <<"gro">>, box),
                  !["out.top"] = OpenW(@, "save_top", <<"top">>, box)]
    /\ proc = NoProc
    /\ out = <<>>
    /\ err = <<>>
    /\ cmds = <<>>
    /\ reads = {}
    /\ trace = [i \in 1..BeforeMdp |->
                  [step |-> PropaneCells[i], stage |-> StageOf(PropaneCells[i]),
                   ok |-> TRUE]]
    /\ lat = NoLattice
    /\ rdf = NoRDF
    /\ overrides \in OverrideSets
    /\ topo = NoCompound
    /\ mix = NoMixture
    /\ ff = FF
    /\ parametrized = apply_ff(ff, Structure("propane")).params

NextMdp == write_gmx_mdp

SpecMdp == InitMdp /\ [][NextMdp]_vars

(***************************************************************************)
(* The topology-edit cell on its own: mb.load has given a compound of some *)
(* particles with some names, the five statements run one by one, then the *)
(* typer infers an element for every particle                              *)
(***************************************************************************)
InitEdit ==
    /\ wf = "propane"
    /\ pc = 2
    /\ halted = FALSE
    /\ error = NoError
    /\ \E rerun \in BOOLEAN : fs = InitFs("propane", rerun)
    /\ proc = NoProc
    /\ out = <<>>
    /\ err = <<>>
    /\ cmds = <<>>
    /\ reads = {}
    /\ trace = <<[step |-> Py("mb_load"), stage |-> StageOf(Py("mb_load")),
                  ok |-> TRUE]>>
    /\ n_compounds = 1
    /\ box = 0
    /\ lat = NoLattice
    /\ rdf = NoRDF
    /\ overrides = NoOverrides
    /\ ff = FF
    /\ parametrized = None
    /\ mix = NoMixture
    /\ \E p \in 1..MaxParticles, names \in [1..MaxParticles -> Names] :
          topo = [NoCompound EXCEPT !.at = 1,
                                    !.loaded = SubSeq(names, 1, p),
                                    !.names = SubSeq(names, 1, p)]

Editing == ~topo.raised /\ topo.at \in DOMAIN EditCell
Stmt == EditCell[topo.at]
Other == <<Pipeline, lat, rdf, overrides, ff, parametrized, mix>>

\* particles[i].name = "_" + ...
rename ==
    /\ Editing
    /\ Stmt.op = "rename"
    /\ Stmt.i + 1 \in DOMAIN topo.names
    /\ topo' = [topo EXCEPT
                  !.at = @ + 1,
                  !.log = Append(@, Stmt),
                  !.names[Stmt.i + 1] = renamed(@, Stmt.strip)]
    /\ UNCHANGED Other

\* cmpd.add_bond((particles[i], particles[j]))
add_bond_stmt ==
    /\ Editing
    /\ Stmt.op = "add_bond"
    /\ {Stmt.i + 1, Stmt.j + 1} \subseteq DOMAIN topo.names
    /\ topo' = [topo EXCEPT
                  !.at = @ + 1,
                  !.log = Append(@, Stmt),
                  !.bonds = add_bond(@, Stmt.i + 1, Stmt.j + 1)]
    /\ UNCHANGED Other

\* particles[i] with i beyond the list: IndexError, the cell stops
IndexError ==
    /\ Editing
    /\ ~({Stmt.i + 1, Stmt.j + 1} \subseteq DOMAIN topo.names)
    /\ topo' = [topo EXCEPT !.raised = TRUE]
    /\ UNCHANGED Other

\* the typer looks at every particle name of the edited compound
find_elements ==
    /\ ~topo.raised
    /\ topo.at = Len(EditCell) + 1
    /\ topo' = [topo EXCEPT
                  !.at = @ + 1,
                  !.elements = [i \in DOMAIN topo.names |-> infer(topo.names[i])]]
    /\ UNCHANGED Other

NextEdit ==
    \/ rename
    \/ add_bond_stmt
    \/ IndexError
    \/ find_elements

SpecEdit == InitEdit /\ [][NextEdit]_vars

(***************************************************************************)
(* The box cells on their own: the shapes of the two grids are drawn, then *)
(* the statements of the three cells run                                   *)
(***************************************************************************)
InitMixture ==
    /\ wf = "hoomd"
    /\ pc = 2
    /\ halted = FALSE
    /\ error = NoError
    /\ fs = InitFs("hoomd", FALSE)
    /\ proc = NoProc
    /\ out = <<>>
    /\ err = <<>>
    /\ cmds = <<>>
    /\ reads = {}
    /\ trace = <<[step |-> Py("build"), stage |-> "edit", ok |-> TRUE]>>
    /\ n_compounds = 1
    /\ box = 0
    /\ lat = NoLattice
    /\ rdf = NoRDF
    /\ overrides = NoOverrides
    /\ topo = NoCompound
    /\ ff = FF
    /\ parametrized = None
    /\ \E n \in 1..MaxGrid, m \in 1..MaxGrid, l \in 1..MaxGrid,
          n2 \in 1..MaxGrid, m2 \in 1..MaxGrid, l2 \in 1..MaxGrid :
          mix = [NoMixture EXCEPT !.at = "start", !.dims = <<n, m, l>>,
                                  !.dims2 = <<n2, m2, l2>>]

Rest == <<Pipeline, lat, rdf, overrides, topo, ff, parametrized>>

\* methane_grid = mb.Grid3DPattern(...); methane_grid.scale(0.4)
\* list_of_methanes = methane_grid.apply(methane_cmpd)
\* methane_box = mb.Compound(list_of_methanes)
methane_cell ==
    /\ mix.at = "start"
    /\ LET grid == scale(Grid3DPattern(mix.dims[1], mix.dims[2], mix.dims[3]),
                         GridScale)
           list == apply(grid, methane_cmpd, Len(methanol.particles))
       IN  mix' = [mix EXCEPT !.at = "methane", !.methane_grid = grid,
                              !.list_of_methanes = list,
                              !.methane_box = Compound(list)]
    /\ UNCHANGED Rest

\* methanol_grid = mb.Grid3DPattern(...); methanol_grid.scale(0.4)
methanol_grid ==
    /\ mix.at = "methane"
    /\ mix' = [mix EXCEPT
                 !.at = "grid",
                 !.methanol_grid =
                     scale(Grid3DPattern(mix.dims2[1], mix.dims2[2], mix.dims2[3]),
                           GridScale)]
    /\ UNCHANGED Rest

\* list_of_methanols = methane_grid.apply(methanol)
methanol_apply ==
    /\ mix.at = "grid"
    /\ mix' = [mix EXCEPT
                 !.at = "applied",
                 !.list_of_methanols =
                     apply(mix.methane_grid, methanol, last_id(mix.list_of_methanes))]
    /\ UNCHANGED Rest

\* methanol_box = mb.Compound(list_of_methanols)
methanol_Compound ==
    /\ mix.at = "applied"
    /\ mix' = [mix EXCEPT !.at = "methanol",
                          !.methanol_box = Compound(mix.list_of_methanols)]
    /\ UNCHANGED Rest

\* methanol_box.translate([0, 0, 1.1*max(methane_box.xyz[:, 2])])
methanol_translate ==
    /\ mix.at = "methanol"
    /\ mix' = [mix EXCEPT
                 !.at = "translated",
                 !.methanol_box =
                     translate_box(@, <<0, 0, shift(max_z(mix.methane_box))>>)]
    /\ UNCHANGED Rest

\* mixture_box = mb.Compound([methane_box, methanol_box])
mixture ==
    /\ mix.at = "translated"
    /\ mix' = [mix EXCEPT
                 !.at = "mixed",
                 !.mixture_box =
                     [particles |-> mix.methane_box.particles
                                       \cup mix.methanol_box.particles,
                      bonds |-> mix.methane_box.bonds \cup mix.methanol_box.bonds]]
    /\ UNCHANGED Rest

NextMixture ==
    \/ methane_cell
    \/ methanol_grid
    \/ methanol_apply
    \/ methanol_Compound
    \/ methanol_translate
    \/ mixture

SpecMixture == InitMixture /\ [][NextMixture]_vars

(***************************************************************************)
(* Properties of the pipeline                                              *)
(***************************************************************************)
RunEnded == halted \/ Done

\* stream a occurs in the reported text b
Includes(b, a) == \A i \in DOMAIN a : \E j \in DOMAIN b : b[j] = a[i]

PreprocessFailed(i) ==
    Cmd(cmds[i].cmd).kind = "preprocess" /\ cmds[i].exit > 0

\* C1: when the preprocess step (gmx grompp) exits with a nonzero status,
\* the run step (gmx mdrun) is never launched afterwards in that run, and
\* the error reported for the run is the invoker's and includes the stderr
\* captured from the preprocess step.
C1_PreprocessFailureAborts ==
    \A i \in DOMAIN cmds :
        PreprocessFailed(i) =>
            /\ \A j \in DOMAIN cmds : j > i => Cmd(cmds[j].cmd).kind # "run"
            /\ RunEnded =>
                  /\ error.stage = "invoke"
                  /\ Includes(error.text, cmds[i].err)

\* C2: fail-fast without retry: once a step of some stage has failed, no
\* step of a later stage is executed, and no step is executed twice.
C2_FailFast ==
    /\ \A i, j \in DOMAIN trace :
          (i < j /\ ~trace[i].ok) =>
              StageIdx(trace[j].stage) <= StageIdx(trace[i].stage)
    /\ \A i, j \in DOMAIN trace : i < j => trace[i].step # trace[j].step

\* C3: whenever the run step reads the preprocess output, or the analyzer
\* reads the trajectory/energy file, the subprocess that produces that file
\* has exited with status 0 in this run and the file is non-empty.
C3_ReadsAfterSuccess ==
    \A r \in reads : r.rc = 0 /\ r.nonempty

\* a Python step that raised (an engine exit is never raised)
Raised(e) == ~e.ok /\ e.step.op \notin {"communicate", "system_exit"}

IsLaunch(e) == e.step.op \in {"Popen", "system"}

\* C4: the steps executed so far run through the stages in the fixed order
\* load, edit, replicate, type, emit, invoke, analyze, plot; no step is
\* executed twice and no step of an earlier stage follows one of a later
\* stage; a step starts only when the one before it is over: nothing
\* follows a step that raised, and the only thing that follows the launch
\* of a subprocess is the exit of that subprocess.
C4_StagesInOrder ==
    /\ \A i, j \in DOMAIN trace :
          i < j =>
             /\ StageIdx(trace[i].stage) <= StageIdx(trace[j].stage)
             /\ trace[i].step # trace[j].step
    /\ \A i \in DOMAIN trace :
          i < Len(trace) =>
             /\ ~Raised(trace[i])
             /\ IsLaunch(trace[i]) =>
                   /\ trace[i + 1].step.op \in {"communicate", "system_exit"}
                   /\ trace[i + 1].step.cmd = trace[i].step.cmd
    /\ proc.running => trace # <<>> /\ IsLaunch(trace[Len(trace)])

\* a propane run went through all eight stages, the engine succeeding
C4_Witness ==
    /\ wf = "propane" /\ Done
    /\ {trace[i].stage : i \in DOMAIN trace} = {Stages[k] : k \in DOMAIN Stages}
    /\ LastExit("grompp") = 0 /\ LastExit("mdrun") = 0

\* the files a step leaves behind when it completes
StepOutputs(step) ==
    CASE step.op = "save_gro" -> {GroFile(wf)}
      [] step.op = "save_top" -> {"out.top"}
      [] step.op = "write_top" -> {"box.top"}
      [] step.op = "write_gmx_mdp" -> {"nvt.mdp"}
      [] step.op = "write_gsd" -> {"box.gsd"}
      [] step.op = "write_log" -> {LogFile(step.cmd, step.arg)}
      [] step.op \in {"communicate", "system_exit"} -> Cmd(step.cmd).outs
      [] step.op = "hoomd_run" -> {"traj.gsd"}
      [] OTHER -> {}

\* f was written by this run (an engine output: completely)
Emitted(f) == fs[f].exists /\ fs[f].cur /\ (f \in EngineFiles => NonEmpty(fs[f]))

HaltedAtFirstFailure ==
    /\ halted
    /\ trace # <<>>
    /\ \A i \in DOMAIN trace : ~trace[i].ok <=> i = Len(trace)

\* C5: a run ends in one of two ways: every stage completed and every
\* expected artifact was emitted, or the pipeline halted at the first
\* failing step with the artifacts of the completed steps still in place.
C5_TwoOutcomes ==
    RunEnded =>
        \/ /\ Done
           /\ \A i \in DOMAIN trace : trace[i].ok
           /\ \A f \in Artifacts(wf) : Emitted(f)
        \/ /\ HaltedAtFirstFailure
           /\ \A i \in DOMAIN trace :
                 trace[i].ok => \A f \in StepOutputs(trace[i].step) : Emitted(f)

\* the engine steps are over: the analyzer or the plotter has been entered
PastInvoker == \E i \in DOMAIN trace : trace[i].stage \in {"analyze", "plot"}

\* C6 as stated: a run performs exactly two engine commands, a preprocess
\* command then a run command, and every file a command takes as argument
\* was emitted earlier in the same run.
C6_TwoCommands ==
    /\ PastInvoker =>
          /\ Len(cmds) = 2
          /\ Cmd(cmds[1].cmd).kind = "preprocess"
          /\ Cmd(cmds[2].cmd).kind = "run"
    /\ \A i \in DOMAIN cmds : Cmd(cmds[i].cmd).args \subseteq cmds[i].emitted

ExpectedCommands(w) ==
    CASE w = "propane" -> <<"grompp", "mdrun">>
      [] w = "charmm"  -> <<"em_grompp", "em_mdrun", "npt_grompp", "npt_mdrun">>
      [] w = "hoomd"   -> <<>>

\* C6, amended: the engine commands of a run are launched as preprocess/run
\* pairs in a fixed order: one pair in the propane workflow, two pairs
\* (energy minimisation, then NPT) in the CHARMM workflow, none in the
\* HOOMD workflow, whose engine runs in-process.  Every file argument of a
\* command is a bundled input (files/em.mdp, files/npt.mdp), a file the
\* emitter wrote earlier in the same run, or an output of the command
\* launched just before it, which has exited by then and has emitted that
\* file completely exactly when it exited with status 0.
C6_CommandPairs ==
    /\ Len(cmds) <= Len(ExpectedCommands(wf))
    /\ \A i \in DOMAIN cmds :
          /\ cmds[i].cmd = ExpectedCommands(wf)[i]
          /\ Cmd(cmds[i].cmd).kind = IF i % 2 = 1 THEN "preprocess" ELSE "run"
          /\ \A a \in Cmd(cmds[i].cmd).args :
                \/ a \in Bundled
                \/ a \notin EngineFiles /\ a \in cmds[i].emitted
                \/ /\ a \in EngineFiles
                   /\ i > 1
                   /\ a \in Cmd(cmds[i - 1].cmd).outs
                   /\ cmds[i - 1].exit >= 0
                   /\ cmds[i - 1].exit = 0 <=> a \in cmds[i].emitted
    /\ PastInvoker => Len(cmds) = Len(ExpectedCommands(wf))

\* a CHARMM run has launched its four commands, the third after a failed
\* energy minimisation
C6_Witness ==
    /\ wf = "charmm" /\ PastInvoker
    /\ Len(cmds) = 4
    /\ cmds[2].exit > 0
    /\ cmds[4].exit = 0

Captured(c, stream) == IF stream = "out" THEN CmdRec(c).out ELSE CmdRec(c).err

Logged(c, stream) == \E i \in DOMAIN trace : trace[i].step = Log(c, stream)

LoggedSteps == {"grompp", "mdrun"} \X {"out", "err"}

C10_MoleculesMatchResidues ==
    (fs["box.top"].cur /\ fs["box.gro"].cur) =>
        /\ fs["box.top"].n = fs["box.gro"].n
        /\ fs["box.top"].n = n_compounds

\* both files written for a box of more than one molecule
C10_Witness ==
    /\ wf = "charmm"
    /\ fs["box.top"].cur /\ fs["box.gro"].cur
    /\ fs["box.gro"].n > 1

(***************************************************************************)
(* Properties of lattice replication                                       *)
(***************************************************************************)
GridPoints == lat.dims[1] * lat.dims[2] * lat.dims[3]

\* the propane prototype after the topology edit: three beads, bonds 0-1, 1-2
IsPropaneChain(c) == Len(c.particles) = 3 /\ c.bonds = {{1, 2}, {2, 3}}

\* C8: the box built from a prototype of p particles and b bonds on a grid
\* of N points holds N*p particles and N*b bonds; for three particles
\* bonded 0-1 and 1-2 on the 2x2x2 grid scaled by 0.4 that is 24 and 16.
C8_CountsPreserved ==
    lat.at = "boxed" =>
        /\ Len(lat.list) = GridPoints
        /\ n_particles(lat.box) = GridPoints * Len(lat.proto.particles)
        /\ n_bonds(lat.box) = GridPoints * Cardinality(lat.proto.bonds)
        /\ (IsPropaneChain(lat.proto) /\ lat.dims = <<2, 2, 2>>) =>
              n_particles(lat.box) = 24 /\ n_bonds(lat.box) = 16

C8_Witness ==
    /\ lat.at = "boxed"
    /\ IsPropaneChain(lat.proto)
    /\ lat.dims = <<2, 2, 2>>
    /\ n_particles(lat.box) = 24

\* the distance between neighbouring grid points: scale/n along an axis
\* of n > 1 points (0.2 nm for Grid3DPattern(2, 2, 2).scale(0.4))
Spacing ==
    LET axes == {a \in 1..3 : lat.dims[a] > 1}
        d(a) == (GridScale * Den) \div lat.dims[a]
    IN  IF axes = {} THEN GridScale * Den
        ELSE d(CHOOSE a \in axes : \A b \in axes : d(a) <= d(b))

Ids(c) == {c.particles[i].id : i \in DOMAIN c.particles}

Disjoint ==
    \A x, y \in DOMAIN lat.list : x # y => Ids(lat.list[x]) \cap Ids(lat.list[y]) = {}

\* C9 as stated: N copies sharing no particle, and no particle of one copy
\* closer than the lattice spacing to any particle of another copy.
C9_CopiesApart ==
    lat.at \in {"applied", "boxed"} =>
        /\ Len(lat.list) = GridPoints
        /\ Disjoint
        /\ \A x, y \in DOMAIN lat.list :
              x # y =>
                 \A i \in DOMAIN lat.list[x].particles,
                    j \in DOMAIN lat.list[y].particles :
                       Dist2(lat.list[x].particles[i].pos,
                             lat.list[y].particles[j].pos) >= Spacing * Spacing

\* C9, amended: replication on a grid of N points yields N copies that
\* share no particle, and for every two distinct copies each particle is at
\* least the lattice spacing (the distance between neighbouring grid
\* points, scale/n) away from the SAME particle of the other copy.  For a
\* single-particle prototype (methane) that is every pair of particles of
\* the two copies; for the two-particle methanol the _OH of one copy lies
\* closer than the spacing to the _CH3 of its neighbour along x.
C9_CopiesDisplaced ==
    lat.at \in {"applied", "boxed"} =>
        /\ Len(lat.list) = GridPoints
        /\ Disjoint
        /\ \A x, y \in DOMAIN lat.list :
              x # y =>
                 \A i \in DOMAIN lat.list[x].particles :
                    Dist2(lat.list[x].particles[i].pos,
                          lat.list[y].particles[i].pos) >= Spacing * Spacing
        /\ (lat.proto = methanol /\ lat.dims[1] > 1) =>
              \E x, y \in DOMAIN lat.list :
                 /\ x # y
                 /\ Dist2(lat.list[x].particles[2].pos,
                          lat.list[y].particles[1].pos) < Spacing * Spacing

\* methanol replicated on the 2x2x2 grid
C9_Witness ==
    /\ lat.at = "applied"
    /\ lat.proto = methanol
    /\ lat.dims = <<2, 2, 2>>
    /\ Len(lat.list) = 8

(***************************************************************************)
(* RDF accumulation                                                        *)
(***************************************************************************)
RECURSIVE FrameSum(_, _, _)
\* the bin-wise sum of the histograms of the first k frames for one type
FrameSum(traj, k, typename) ==
    IF k = 0 THEN RDF
    ELSE [b \in 1..bins |->
            FrameSum(traj, k - 1, typename)[b]
            + Histogram(traj[k], get_ids(traj[k], typename))[b]]

\* frames the loop has processed so far
Processed == rdf.i - 1

\* C11: after the loop has processed frames 1..k, each computed
\* accumulator (CH3-CH3, CH4-CH4, OH-OH) holds, bin by bin, the sum of the
\* contributions of all k frames; the accumulators that are created but
\* never computed stay empty.
C11_AccumulatorsSum ==
    rdf.at = "loop" =>
        /\ \A a \in DOMAIN Computed :
              rdf.acc[a] = FrameSum(rdf.traj, Processed, Computed[a])
        /\ \A a \in RDFs \ DOMAIN Computed : rdf.acc[a] = RDF

\* two or more frames processed, and an accumulator that differs from the
\* contribution of the last frame alone
C11_Witness ==
    /\ rdf.at = "loop"
    /\ Processed >= 2
    /\ \E a \in DOMAIN Computed :
          LET last == rdf.traj[Processed]
          IN  /\ \E b \in 1..bins : Histogram(last, get_ids(last, Computed[a]))[b] > 0
              /\ rdf.acc[a] # Histogram(last, get_ids(last, Computed[a]))

(***************************************************************************)
(* The run-control file                                                    *)
(***************************************************************************)
MdpWritten ==
    /\ wf = "propane"
    /\ fs["nvt.mdp"].cur
    /\ fs["nvt.mdp"].by = "write_gmx_mdp"

Rendered == Directives(fs["nvt.mdp"].data)

Edited == ~topo.raised /\ topo.at > Len(EditCell)
Typed == ~topo.raised /\ topo.at > Len(EditCell) + 1
Underscored(name) == name # <<>> /\ Head(name) = "_"

\* C13: after the topology-edit cell of the propane notebook all three
\* particles have names that begin with an underscore, whatever names they
\* were loaded with, and the typer then makes every one of them a custom
\* element without an element lookup.
C13_UnderscoreBypasses ==
    /\ Edited =>
          \A i \in 1..3 : i \in DOMAIN topo.names /\ Underscored(topo.names[i])
    /\ Typed =>
          \A i \in 1..3 :
             /\ topo.elements[i].custom
             /\ ~topo.elements[i].lookup
             /\ topo.elements[i].symbol = topo.names[i]

\* three particles loaded with names the typer would have looked up (one of
\* them an element symbol), now custom elements
C13_Witness ==
    /\ Typed
    /\ Len(topo.loaded) = 3
    /\ \A i \in 1..3 : infer(topo.loaded[i]).lookup
    /\ topo.loaded[2] \in Elements
    /\ \A i \in 1..3 : topo.elements[i].custom

\* statements of one kind executed so far, by position in the log
LogOf(op) == {k \in DOMAIN topo.log : topo.log[k].op = op}

TyperEvents == {k \in DOMAIN trace : trace[k].step.op = "ff_apply"}
Unmatched == Needed(Structure(wf)) \ ff
TypedFiles == {f \in Files : fs[f].cur /\ fs[f].by \in {"save_gro", "save_top", "write_gsd"}}
EngineStarted ==
    \/ cmds # <<>>
    \/ \E k \in DOMAIN trace : trace[k].step.op = "hoomd_run"

\* C14: typing is all-or-nothing.  When a particle type or bonded term of
\* the structure has no rule in the force field, or the typer fails for any
\* other reason, the typer raises: there is no parametrized structure, no
\* file is emitted from one and no engine is started.  When the typer
\* returns, every particle type and every term of the structure has
\* parameters.
C14_TypingAllOrNothing ==
    wf \in {"propane", "hoomd"} =>
        /\ \A k \in TyperEvents :
              /\ Unmatched # {} => ~trace[k].ok
              /\ ~trace[k].ok =>
                    /\ halted
                    /\ parametrized = None
                    /\ TypedFiles = {}
                    /\ ~EngineStarted
              /\ trace[k].ok => DOMAIN parametrized = Needed(Structure(wf))
        /\ TyperEvents = {} =>
              /\ parametrized = None
              /\ TypedFiles = {}
              /\ ~EngineStarted

\* the force field lacks the rule of exactly one bonded term and the typer
\* has raised
C14_Witness ==
    /\ wf = "propane"
    /\ Unmatched = {"CH3-CH2-CH3"}
    /\ halted
    /\ error.stage = "type"
    /\ \E k \in TyperEvents : ~trace[k].ok

(***************************************************************************)
(* Blocking on the subprocess                                              *)
(***************************************************************************)
LogFiles == {"grompp.out", "grompp.err", "mdrun.out", "mdrun.err"}
Launched == wf = "propane" /\ cmds # <<>>
InvokerFinished ==
    /\ wf = "propane"
    /\ Len(cmds) = 2
    /\ \A k \in DOMAIN cmds : cmds[k].exit \in ExitCodes
    /\ ~proc.running
    /\ \A f \in LogFiles : fs[f].cur /\ fs[f].by = "write_log"

\* the only step taken while a subprocess runs is its exit: the same
\* statement returns with the exit status recorded; nothing else moves
ExitStep ==
    /\ ~proc'.running
    /\ ~halted'
    /\ Len(cmds') = Len(cmds)
    /\ cmds'[Len(cmds)].exit \in ExitCodes
    /\ pc' = pc + 1
    /\ Len(trace') = Len(trace) + 1
    /\ trace'[Len(trace')].step.op \in {"communicate", "system_exit"}
    /\ \A f \in LogFiles : fs'[f] = fs[f]

CharmmOrder == <<"em_grompp", "em_mdrun", "npt_grompp", "npt_mdrun">>
Analyzed == \E k \in DOMAIN trace : trace[k].step.op = "mdtraj_load"

\* C17: the CHARMM notebook launches its engine steps in the order
\* em grompp, em mdrun, npt grompp, npt mdrun, each after the one before
\* has exited; npt grompp is given em.gro as its coordinate file and never
\* box.gro; the analysis runs after the four steps and opens no
\* engine-written file but npt.xtc and npt.gro.
C17_CharmmOrder ==
    wf = "charmm" =>
        /\ Len(cmds) <= Len(CharmmOrder)
        /\ \A i \in DOMAIN cmds :
              /\ cmds[i].cmd = CharmmOrder[i]
              /\ i > 1 => cmds[i - 1].exit \in ExitCodes
              /\ cmds[i].cmd = "npt_grompp" =>
                    /\ "em.gro" \in cmds[i].args
                    /\ "box.gro" \notin cmds[i].args
        /\ \A r \in reads :
              /\ r.reader = "npt_grompp" => r.file = "em.gro"
              /\ r.reader = "analyzer" => r.file \in {"npt.xtc", "npt.gro"}
        /\ Analyzed =>
              /\ Len(cmds) = Len(CharmmOrder)
              /\ cmds[Len(cmds)].exit \in ExitCodes

\* a finished CHARMM run: npt grompp has read em.gro, the analysis has
\* read npt.xtc and npt.gro
C17_Witness ==
    /\ wf = "charmm"
    /\ Done
    /\ \A i \in DOMAIN cmds : cmds[i].exit = 0
    /\ {r.file : r \in {q \in reads : q.reader = "npt_grompp"}} = {"em.gro"}
    /\ {r.file : r \in {q \in reads : q.reader = "analyzer"}} = {"npt.xtc", "npt.gro"}

(***************************************************************************)
(* The mixture box                                                         *)
(***************************************************************************)
Named(b, name) == {q \in b.particles : q.name = name}
IdsOf(b) == {q.id : q \in b.particles}
Points == mix.dims[1] * mix.dims[2] * mix.dims[3]

\* C18: once the methanol box has been translated along z by 1.1 times
\* the largest z of the methane box, every methanol particle lies strictly
\* above every methane particle (for a methane grid of two or more layers
\* in z, as the notebook's 2x2x2 grid); the mixture box holds every
\* particle of the two boxes exactly once: one _CH4 per grid point and one
\* _CH3 and one _OH per grid point, 8 methane and 16 methanol beads on the
\* 2x2x2 grid.
C18_MethanolAbove ==
    /\ (mix.at \in {"translated", "mixed"} /\ mix.dims[3] >= 2) =>
          \A a \in mix.methane_box.particles, b \in mix.methanol_box.particles :
             b.pos[3] > a.pos[3]
    /\ mix.at = "mixed" =>
          /\ IdsOf(mix.methane_box) \cap IdsOf(mix.methanol_box) = {}
          /\ IdsOf(mix.mixture_box)
                = IdsOf(mix.methane_box) \cup IdsOf(mix.methanol_box)
          /\ Cardinality(mix.mixture_box.particles)
                = Cardinality(IdsOf(mix.mixture_box))
          /\ Cardinality(Named(mix.mixture_box, "_CH4")) = Points
          /\ Cardinality(Named(mix.mixture_box, "_CH3")) = Points
          /\ Cardinality(Named(mix.mixture_box, "_OH")) = Points
          /\ Cardinality(mix.mixture_box.particles) = 3 * Points
          /\ mix.dims = <<2, 2, 2>> =>
                /\ Cardinality(mix.methane_box.particles) = 8
                /\ Cardinality(mix.methanol_box.particles) = 16

\* the notebook's mixture: 24 beads, the lowest methanol above the highest
\* methane
C18_Witness ==
    /\ mix.at = "mixed"
    /\ mix.dims = <<2, 2, 2>>
    /\ mix.dims2 = <<2, 2, 2>>
    /\ Cardinality(mix.mixture_box.particles) = 24
    /\ \E b \in mix.methanol_box.particles :
          b.pos[3] = shift(max_z(mix.methane_box)) /\ b.pos[3] > max_z(mix.methane_box)

====
